---- MODULE Spec2Model ----
(***************************************************************************)
(* Multi-tenant WhatsApp webhook ingestion of                              *)
(* services/whatsappServices/multi_tenant_whatsapp_service.py, together    *)
(* with the database session of db/db.py and the tables of db/models.py.   *)
(*                                                                         *)
(* The database is modelled at the level the code uses it: a table of      *)
(* committed rows, and per request a session holding the rows it has       *)
(* flushed inside its open transaction.  A session sees the committed rows *)
(* and its own flushed rows (READ COMMITTED).  A failed flush rolls the    *)
(* transaction back and leaves the session unusable until rollback() is    *)
(* called; closing a session discards what was not committed.              *)
(***************************************************************************)
EXTENDS Integers, Sequences, FiniteSets, TLC

\* ---------------------------------------------------------------- bounds
MaxChanges == 2
MaxBatch == 5
MaxFlood == 10

\* ------------------------------------------------------------- constants
None == "None"
Requests == {"r1", "r2"}
Senders == {"s1", "s2"}
Users == {1, 2}
OutIds == {"o1", "o2"}
MsgIds == {"m1", "m2"}

\* whatsapp_business_accounts rows (id, user_id); is_active is state
WhatsAppBusinessAccount ==
    { [id |-> 11, user_id |-> 1], [id |-> 12, user_id |-> 2] }

\* whatsapp_phone_numbers rows; phone_number_id is unique
WhatsAppPhoneNumber ==
    { [id |-> 21, waba_id |-> 11, phone_number_id |-> "p1"],
      [id |-> 22, waba_id |-> 12, phone_number_id |-> "p2"] }

WabaIds == { w.id : w \in WhatsAppBusinessAccount }
PhoneNumberIds == {"p1", "p2", "p9"}

\* Optional[Dict] None of the two lookups
NotFound == [user_id |-> 0, waba_id |-> 0, phone_id |-> 0]

\* ------------------------------------------------------ webhook payloads
Msg(id, from) == [id |-> id, from |-> from]

MsgChange(phone, msgs) ==
    [field |-> "messages", value |-> TRUE, phone |-> phone, messages |-> msgs]

StatusChange ==
    [field |-> "statuses", value |-> TRUE, phone |-> None, messages |-> << >>]

EmptyValueChange ==
    [field |-> "messages", value |-> FALSE, phone |-> None, messages |-> << >>]

\* shape: "not_dict" | "no_entry" | "entry_scalar" | "ok"; entry: list of
\* entries, an entry being its list of changes
Payload(shape, entry) == [shape |-> shape, entry |-> entry]

SeqUpTo(S, n) == UNION { [1..k -> S] : k \in 0..n }

VARIABLES
    wabaActive,          \* WhatsAppBusinessAccount.is_active, by row id
    committed,           \* committed rows of whatsapp_messages_v2
    nextId,              \* primary-key sequence of whatsapp_messages_v2
    payload,             \* webhook_data of each request
    pc,                  \* position of each request in its handler
    pos,                 \* entry_idx, change_idx, message_idx (1-based)
    tenant_info,         \* route of the value being processed
    processed_messages,  \* route_webhook_message local
    errors,              \* route_webhook_message local
    result,              \* value returned by route_webhook_message
    session,             \* AsyncSession of the request
    tasks,               \* tasks created by asyncio.create_task
    credential,          \* WhatsAppBusinessAccount.access_token_encrypted
    send,                \* the send_message calls
    provider_log,        \* requests received by the provider send API
    webhook_ack,         \* what whatsapp_webhook_v2 answered to each request
    ai_fault,            \* what makes _process_message_with_ai fail, if anything
    vault,               \* one use of the vault: a credential encrypted, kept, decrypted
    verification,        \* one webhook verification request and its answer
    cache                \* performance_cache: the analytics entry of each user

vars == << wabaActive, committed, nextId, payload, pc, pos, tenant_info,
           processed_messages, errors, result, session, tasks,
           credential, send, provider_log, webhook_ack, ai_fault, vault,
           verification, cache >>

edgeVars == << verification, cache >>

sendVars == << credential, send, provider_log, vault, edgeVars >>

ingestVars == << payload, pc, pos, tenant_info, processed_messages, errors,
                 result, session, tasks, webhook_ack >>

\* ------------------------------------------------------------ the tables
\* a session as SessionLocal() makes it
OpenSession == [state |-> "active", rows |-> {}, webhooks |-> 0]

\* the record stored under a fixed user instead of the routed tenant
M_InboundRow(id, tenant, msg) ==
    [ id |-> id,
      user_id |-> 1,
      waba_id |-> tenant.waba_id,
      phone_number_id |-> tenant.phone_id,
      message_id |-> msg.id,
      direction |-> "inbound",
      contact_phone |-> msg.from,
      status |-> "received",
      ai_processed |-> FALSE,
      predicted_priority |-> None,
      created_at |-> "utcnow" ]

\* WhatsAppMessageV2 row built by _process_tenant_message
InboundRow(id, tenant, msg) ==
    [ id |-> id,
      user_id |-> tenant.user_id,
      waba_id |-> tenant.waba_id,
      phone_number_id |-> tenant.phone_id,
      message_id |-> msg.id,
      direction |-> "inbound",
      contact_phone |-> msg.from,
      status |-> "received",
      ai_processed |-> FALSE,
      predicted_priority |-> None,
      created_at |-> "utcnow" ]

\* rows a session's SELECT returns: committed rows and its own flushed rows
Visible(r) == committed \cup session[r].rows

\* rows of whatsapp_messages_v2 held by the database, committed or flushed
\* inside a transaction that is still open
AllRows == committed \cup UNION { session[r].rows : r \in Requests }

\* join of whatsapp_business_accounts and whatsapp_phone_numbers
Joined ==
    { x \in WhatsAppBusinessAccount \X WhatsAppPhoneNumber :
        x[2].waba_id = x[1].id }

RouteOf(x) == [user_id |-> x[1].user_id, waba_id |-> x[1].id, phone_id |-> x[2].id]

First(S) == IF S = {} THEN NotFound ELSE CHOOSE x \in S : TRUE

\* the is_active condition left out of the query
M_find_tenant_for_phone(phone_number_id, sess) ==
    IF sess.state # "active" THEN NotFound
    ELSE First({ RouteOf(x) : x \in
            { y \in Joined : y[2].phone_number_id = phone_number_id } })

\* _find_tenant_for_phone: db.execute raises on a session whose flush
\* failed, and the except clause turns that into None
find_tenant_for_phone(phone_number_id, sess) ==
    IF sess.state # "active" THEN NotFound
    ELSE First({ RouteOf(x) : x \in
            { y \in Joined : /\ y[2].phone_number_id = phone_number_id
                             /\ wabaActive[y[1].id] = TRUE } })

\* _get_user_waba_for_phone: the same join restricted to the caller's user
get_user_waba_for_phone(user_id, phone_number_id, sess) ==
    IF sess.state # "active" THEN NotFound
    ELSE First({ RouteOf(x) : x \in
            { y \in Joined : /\ y[1].user_id = user_id
                             /\ y[2].phone_number_id = phone_number_id
                             /\ wabaActive[y[1].id] = TRUE } })

\* ------------------------------------------------- walking the payload
Entries(r) == payload[r].entry

RECURSIVE NextChangePos(_, _, _)
\* first position at or after (e, c) that holds a change; an entry without
\* changes is skipped by `continue`
NextChangePos(entry, e, c) ==
    IF e > Len(entry) THEN [e |-> e, c |-> 1, m |-> 1]
    ELSE IF c > Len(entry[e]) THEN NextChangePos(entry, e + 1, 1)
    ELSE [e |-> e, c |-> c, m |-> 1]

CurChange(r) == Entries(r)[pos[r].e][pos[r].c]
CurMessage(r) == CurChange(r).messages[pos[r].m]

Err(kind, e, detail) == [kind |-> kind, entry |-> e, detail |-> detail]

\* `break` where the code has `continue`: the walk ends after this change
M_GoNextChange(r) ==
    /\ pos' = [pos EXCEPT ![r] = [e |-> Len(Entries(r)) + 1, c |-> 1, m |-> 1]]
    /\ pc' = [pc EXCEPT ![r] = "finish"]

\* leave the change at pos[r]: go on with the next change or finish
GoNextChange(r) ==
    LET np == NextChangePos(Entries(r), pos[r].e, pos[r].c + 1) IN
    /\ pos' = [pos EXCEPT ![r] = np]
    /\ pc' = [pc EXCEPT ![r] = IF np.e > Len(Entries(r)) THEN "finish" ELSE "change"]

\* leave the message at pos[r]: next message of the value, or next change
GoNextMessage(r) ==
    IF pos[r].m < Len(CurChange(r).messages)
    THEN /\ pos' = [pos EXCEPT ![r].m = @ + 1]
         /\ pc' = [pc EXCEPT ![r] = "dupcheck"]
    ELSE GoNextChange(r)

Res(success, kind, pcount, ecount, errs) ==
    [success |-> success, kind |-> kind, processed_count |-> pcount,
     error_count |-> ecount, errors |-> errs]

NoResult == Res(FALSE, None, 0, 0, << >>)

\* ---------------------------------------------------------------- actions
\* the check for a missing "entry" key left out
M_validate(p) ==
    CASE p.shape = "not_dict" -> "exception"
      [] p.shape = "entry_scalar" -> "exception"
      [] p.shape = "ok" /\ p.entry = << >> -> "empty"
      [] OTHER -> "walk"

\* the validation at the head of route_webhook_message: what the call does
\* with a payload before walking it
validate(p) ==
    CASE p.shape = "not_dict" -> "exception"
      [] p.shape = "no_entry" -> "invalid_structure"
      [] p.shape = "entry_scalar" -> "exception"
      [] p.shape = "ok" /\ p.entry = << >> -> "empty"
      [] OTHER -> "walk"

\* route_webhook_message, from entry to the first change: validation
RouteWebhookMessage(r) ==
    /\ pc[r] = "idle"
    /\ UNCHANGED << sendVars, webhook_ack, wabaActive, ai_fault, committed, nextId, payload, tenant_info,
                    processed_messages, errors, session, tasks >>
    /\ CASE validate(payload[r]) = "exception" ->
              \* raise WhatsAppError (not a dict) or TypeError (an entry that
              \* is truthy and not iterable), caught by the outer except
              /\ result' = [result EXCEPT ![r] = Res(FALSE, "exception", 0, 1, << >>)]
              /\ pc' = [pc EXCEPT ![r] = "returned"]
              /\ UNCHANGED pos
         [] validate(payload[r]) = "invalid_structure" ->
              \* the returned dict has no error_count key (-1)
              /\ result' = [result EXCEPT ![r] =
                              Res(FALSE, "invalid_structure", 0, -1,
                                  << Err("invalid_structure", 0, None) >>)]
              /\ pc' = [pc EXCEPT ![r] = "returned"]
              /\ UNCHANGED pos
         [] validate(payload[r]) = "empty" ->
              \* "No entries to process": success, no error_count key (-1)
              /\ result' = [result EXCEPT ![r] = Res(TRUE, "empty", 0, -1, << >>)]
              /\ pc' = [pc EXCEPT ![r] = "returned"]
              /\ UNCHANGED pos
         [] OTHER ->
              LET np == NextChangePos(Entries(r), 1, 1) IN
              /\ pos' = [pos EXCEPT ![r] = np]
              /\ pc' = [pc EXCEPT ![r] =
                          IF np.e > Len(Entries(r)) THEN "finish" ELSE "change"]
              /\ UNCHANGED result

\* a value whose phone_number_id is missing is skipped without an error
M_route_errors(ch, ti, e) ==
    IF ch.phone = None THEN << >>
    ELSE IF ti = NotFound THEN << Err("no_tenant", e, ch.phone) >>
    ELSE << >>

\* the errors one value adds before its messages are looked at
route_errors(ch, ti, e) ==
    IF ch.phone = None THEN << Err("missing_phone_number_id", e, None) >>
    ELSE IF ti = NotFound THEN << Err("no_tenant", e, ch.phone) >>
    ELSE << >>

\* one iteration of the loop over changes, up to the loop over messages
RouteChange(r) ==
    /\ pc[r] = "change"
    /\ UNCHANGED << sendVars, webhook_ack, wabaActive, ai_fault, committed, nextId, payload,
                    processed_messages, result, session, tasks >>
    /\ LET ch == CurChange(r)
           ti == IF ch.phone = None THEN NotFound
                 ELSE find_tenant_for_phone(ch.phone, session[r])
       IN
       CASE ch.field # "messages" \/ ~ch.value ->
              \* not a "messages" change, or an empty value: continue
              /\ GoNextChange(r)
              /\ UNCHANGED << errors, tenant_info >>
         [] ch.field = "messages" /\ ch.value /\ (ch.phone = None \/ ti = NotFound) ->
              /\ errors' = [errors EXCEPT ![r] = @ \o route_errors(ch, ti, pos[r].e)]
              /\ GoNextChange(r)
              /\ UNCHANGED tenant_info
         [] OTHER ->
              /\ tenant_info' = [tenant_info EXCEPT ![r] = ti]
              /\ UNCHANGED errors
              /\ IF ch.messages = << >>
                 THEN GoNextChange(r)
                 ELSE /\ pos' = [pos EXCEPT ![r].m = 1]
                      /\ pc' = [pc EXCEPT ![r] = "dupcheck"]

\* the duplicate check of _process_tenant_message: SELECT ... WHERE
\* message_id = :message_id AND user_id = :user_id
existing_message(rows, message_id, user_id) ==
    { x \in rows : x.message_id = message_id /\ x.user_id = user_id }

\* _process_tenant_message up to the duplicate check
ProcessTenantMessage(r) ==
    /\ pc[r] = "dupcheck"
    /\ UNCHANGED << sendVars, webhook_ack, wabaActive, ai_fault, committed, nextId, payload, tenant_info,
                    result, session, tasks >>
    /\ LET msg == CurMessage(r) IN
       CASE msg.id = None ->
              \* raise WhatsAppError("Message missing ID")
              /\ errors' = [errors EXCEPT ![r] =
                              Append(@, Err("message", pos[r].e, "missing_id"))]
              /\ UNCHANGED processed_messages
              /\ GoNextMessage(r)
         [] msg.id # None /\ session[r].state # "active" ->
              \* db.execute raises PendingRollbackError
              /\ errors' = [errors EXCEPT ![r] =
                              Append(@, Err("message", pos[r].e, "pending_rollback"))]
              /\ UNCHANGED processed_messages
              /\ GoNextMessage(r)
         [] msg.id # None /\ session[r].state = "active"
            /\ existing_message(Visible(r), msg.id, tenant_info[r].user_id) # {} ->
              /\ processed_messages' = [processed_messages EXCEPT ![r] =
                    Append(@, [status |-> "duplicate", message_id |-> msg.id,
                               tenant_id |-> tenant_info[r].user_id])]
              /\ UNCHANGED errors
              /\ GoNextMessage(r)
         [] OTHER ->
              /\ pc' = [pc EXCEPT ![r] = "insert"]
              /\ UNCHANGED << pos, errors, processed_messages >>

\* constraints of whatsapp_messages_v2 that the INSERT can violate:
\* contact_phone is NOT NULL, message_id is UNIQUE
not_null_violation(row) == row.contact_phone = None

\* message_id declared without unique=True
M_unique_violation(rows, row) == FALSE

unique_violation(rows, row) == \E x \in rows : x.message_id = row.message_id

\* another open transaction holds an uncommitted row with the same unique
\* key: the INSERT waits for that transaction to end
BlockedBy(r, row) ==
    { o \in Requests \ {r} : unique_violation(session[o].rows, row) }

\* create_task called twice for one stored record
M_ai_tasks(row) ==
    << [id |-> row.id, message_id |-> row.message_id, done |-> FALSE,
        runs |-> 0, outcome |-> None],
       [id |-> row.id, message_id |-> row.message_id, done |-> FALSE,
        runs |-> 0, outcome |-> None] >>

\* tasks created by one successful store
ai_tasks(row) ==
    << [id |-> row.id, message_id |-> row.message_id, done |-> FALSE,
        runs |-> 0, outcome |-> None] >>

\* message_record.id before db.add and db.flush: None, which the WHERE
\* clause renders as `id IS NULL`; no primary key equals it
TransientId == 0

\* an UPDATE of created_at without its WHERE clause
M_timestamp_update(rows, id) ==
    { [x EXCEPT !.created_at = "timestamp"] : x \in rows }

\* UPDATE whatsapp_messages_v2 SET created_at = :ts WHERE id = :id, issued
\* for a message that carries a timestamp
timestamp_update(rows, id) ==
    { IF x.id = id THEN [x EXCEPT !.created_at = "timestamp"] ELSE x : x \in rows }

\* the rows the transaction of request r has written once the UPDATE of
\* created_at has run: its flushed rows and the new versions of the rows
\* the UPDATE changed
WrittenAfterUpdate(r) == timestamp_update(Visible(r), TransientId) \ committed

\* _process_tenant_message from the record on: the UPDATE of created_at,
\* db.add, db.flush, asyncio.create_task, return
StoreTenantMessage(r) ==
    /\ pc[r] = "insert"
    /\ UNCHANGED << sendVars, webhook_ack, wabaActive, ai_fault, committed, payload, tenant_info, result >>
    /\ LET msg == CurMessage(r)
           row == InboundRow(nextId, tenant_info[r], msg)
       IN
       IF not_null_violation(row) \/ unique_violation(Visible(r), row)
       THEN \* flush raises IntegrityError: the transaction is rolled back
            \* and the session stays inactive
            /\ session' = [session EXCEPT ![r].state = "inactive", ![r].rows = {}]
            /\ errors' = [errors EXCEPT ![r] =
                            Append(@, Err("message", pos[r].e, "integrity_error"))]
            /\ UNCHANGED << nextId, processed_messages, tasks >>
            /\ GoNextMessage(r)
       ELSE /\ BlockedBy(r, row) = {}
            /\ session' = [session EXCEPT ![r].rows = WrittenAfterUpdate(r) \cup {row}]
            /\ nextId' = nextId + 1
            /\ tasks' = tasks \o ai_tasks(row)
            /\ processed_messages' = [processed_messages EXCEPT ![r] =
                  Append(@, [status |-> "processed", message_id |-> msg.id,
                             tenant_id |-> tenant_info[r].user_id])]
            /\ UNCHANGED errors
            /\ GoNextMessage(r)

\* errors[:10]
ErrorLimit == 10

Prefix(s, n) == IF Len(s) <= n THEN s ELSE SubSeq(s, 1, n)

\* a result that reports the whole error list
M_aggregate_result(pm, errs) ==
    Res(Len(errs) = 0, "aggregate", Len(pm), Len(errs), errs)

\* the aggregate result of route_webhook_message
aggregate_result(pm, errs) ==
    Res(Len(errs) = 0, "aggregate", Len(pm), Len(errs), Prefix(errs, ErrorLimit))

\* end of route_webhook_message: result, _store_webhook_record, return
Finish(r) ==
    /\ pc[r] = "finish"
    /\ result' = [result EXCEPT ![r] = aggregate_result(processed_messages[r], errors[r])]
    /\ session' = [session EXCEPT ![r].webhooks = @ + 1]
    /\ pc' = [pc EXCEPT ![r] = "returned"]
    /\ UNCHANGED << sendVars, webhook_ack, wabaActive, ai_fault, committed, nextId, payload, pos, tenant_info,
                    processed_messages, errors, tasks >>

\* what leaving `async with SessionLocal() as session` makes durable:
\* the handler never commits, so close() discards the transaction
rows_kept_on_close(sess) == {}

NoResponse == [code |-> 0, status |-> None, processed |-> NoResult]

\* an endpoint that answers 500 when the result reports success False
M_webhook_response(res) ==
    IF res.success
    THEN [code |-> 200, status |-> "success", processed |-> res]
    ELSE [code |-> 500, status |-> "error", processed |-> NoResult]

\* the answer of whatsapp_webhook_v2: route_webhook_message hands back a
\* dict for every outcome (its own except clause returns one too), and the
\* endpoint wraps whatever it got into a success answer; HTTP 500 is for an
\* exception leaving route_webhook_message
webhook_response(res) ==
    IF res.kind = "raised"
    THEN [code |-> 500, status |-> "error", processed |-> NoResult]
    ELSE [code |-> 200, status |-> "success", processed |-> res]

\* the webhook endpoint returns and get_async_session closes the session
CloseSession(r) ==
    /\ pc[r] = "returned"
    /\ webhook_ack' = [webhook_ack EXCEPT ![r] = webhook_response(result[r])]
    /\ committed' = committed \cup rows_kept_on_close(session[r])
    /\ session' = [session EXCEPT ![r] = [state |-> "closed", rows |-> {}, webhooks |-> 0]]
    /\ pc' = [pc EXCEPT ![r] = "closed"]
    /\ UNCHANGED << sendVars, wabaActive, ai_fault, nextId, payload, pos, tenant_info,
                    processed_messages, errors, result, tasks >>

\* the request is cancelled at one of its awaits (the client went away):
\* CancelledError is not an Exception, no except clause of the handlers
\* catches it, and `async with SessionLocal()` closes the session on the
\* way out; the tasks made by create_task are not children of the request
Cancel(r) ==
    /\ pc[r] \in { "idle", "change", "dupcheck", "insert", "finish" }
    /\ committed' = committed \cup rows_kept_on_close(session[r])
    /\ session' = [session EXCEPT ![r] = [state |-> "closed", rows |-> {}, webhooks |-> 0]]
    /\ pc' = [pc EXCEPT ![r] = "cancelled"]
    /\ UNCHANGED << sendVars, webhook_ack, wabaActive, ai_fault, nextId, payload, pos,
                    tenant_info, processed_messages, errors, result, tasks >>

\* the UPDATE of the enrichment without its WHERE clause
M_ai_update(rows, id) ==
    { [x EXCEPT !.ai_processed = TRUE, !.predicted_priority = "medium"] : x \in rows }

\* UPDATE whatsapp_messages_v2 SET ai_processed ... WHERE id = :id, run in
\* the task's own session: it reaches committed rows only
ai_update(rows, id) ==
    { IF x.id = id
      THEN [x EXCEPT !.ai_processed = TRUE, !.predicted_priority = "medium"]
      ELSE x : x \in rows }

\* what can make one run of the enrichment fail: an exception inside
\* _process_message_with_ai before the UPDATE ("ai_error"), or the task's
\* own session failing at execute or commit ("session_error")
AiFaults == { None, "ai_error", "session_error" }

AiOutcomes == { "ok", "ai_error", "session_error" }

\* a failed run that still commits an UPDATE, and without its WHERE clause
M_enrichment_commit(rows, id, outcome) ==
    IF outcome = "ok" THEN ai_update(rows, id)
    ELSE { [x EXCEPT !.ai_processed = TRUE] : x \in rows }

\* the table after the task's session has ended: the UPDATE is committed
\* when nothing failed; an "ai_error" is swallowed before the UPDATE and an
\* empty transaction is committed; a "session_error" ends in rollback()
enrichment_commit(rows, id, outcome) ==
    IF outcome = "ok" THEN ai_update(rows, id) ELSE rows

\* a failed run that leaves its task to be run again
M_task_after_run(t, outcome) ==
    [t EXCEPT !.done = (outcome = "ok"), !.runs = @ + 1, !.outcome = outcome]

\* the task after its coroutine has ended (`break  # Only run once`)
task_after_run(t, outcome) ==
    [t EXCEPT !.done = TRUE, !.runs = @ + 1, !.outcome = outcome]

\* _process_message_with_ai_async: own session, update, commit or
\* rollback, close
\* a task that works in the session of the request that stored its record
M_task_shares_session(t) ==
    { r \in Requests : \E x \in session[r].rows : x.id = t.id }

\* the requests whose session the task uses: none, get_async_session()
\* hands `async for session in get_async_session()` a new SessionLocal()
task_shares_session(t) == {}

\* commit, rollback and close of the task ending the transaction of a
\* session: its flushed rows become committed on commit, are dropped on
\* rollback, and the session is closed
TaskEndsSession(sess) == [state |-> "closed", rows |-> {}, webhooks |-> 0]

\* _process_message_with_ai_async: own session, update, commit or
\* rollback, close
ProcessMessageWithAiAsync(i, outcome) ==
    /\ i \in 1..Len(tasks)
    /\ ~tasks[i].done
    /\ outcome = "ok" \/ outcome = ai_fault
    /\ LET shared == task_shares_session(tasks[i])
           flushed == UNION { session[r].rows : r \in shared }
       IN
       /\ committed' = enrichment_commit(
                           IF outcome = "session_error" THEN committed
                           ELSE committed \cup flushed,
                           tasks[i].id, outcome)
       /\ session' = [r \in Requests |->
                        IF r \in shared THEN TaskEndsSession(session[r])
                        ELSE session[r]]
    /\ tasks' = [tasks EXCEPT ![i] = task_after_run(@, outcome)]
    /\ UNCHANGED << sendVars, webhook_ack, wabaActive, ai_fault, nextId, payload, pc, pos,
                    tenant_info, processed_messages, errors, result >>

\* ---------------------------------------------------- utils/encryption.py
\* Python values that go through the vault: a dict is its set of
\* <<key, value>> items, a value being a string or None; PyNone is the None
\* that decrypt_token returns
PyNone == [isNone |-> TRUE, items |-> {}]

Dict(items) == [isNone |-> FALSE, items |-> items]

\* `not x` of Python: None and the empty dict are both falsy
Falsy(x) == x.isNone \/ x.items = {}

HasKey(x, k) == ~x.isNone /\ \E it \in x.items : it[1] = k

Get(x, k) == (CHOOSE it \in x.items : it[1] = k)[2]

\* keys of the token dicts, in the order sort_keys=True writes them
TokenKeys == << "access_token", "refresh_token" >>

TokenValues == { "tokA", "tokB", None }

\* the key derived from JWT_SECRET, and a key derived from another secret
VaultKey == "k1"

FernetKeys == { "k1", "k2" }

\* json.dumps(token_data, sort_keys=True): the members of the object in
\* key order
json_dumps(x) ==
    [ valid |-> TRUE,
      members |-> SelectSeq([i \in 1..Len(TokenKeys) |->
                               << TokenKeys[i],
                                  IF HasKey(x, TokenKeys[i])
                                  THEN Get(x, TokenKeys[i]) ELSE "absent" >>],
                            LAMBDA m : m[2] # "absent") ]

\* json.loads of a valid text: the dict of its members
json_loads(text) == Dict({ text.members[i] : i \in DOMAIN text.members })

\* Fernet(key).encrypt followed by base64.urlsafe_b64encode: a blob that
\* decodes, is authenticated under `key`, and holds the text
fernet_encrypt(key, text) ==
    [decodable |-> TRUE, key |-> key, mac_ok |-> TRUE, text |-> text]

\* json.dumps that forgets every member but the first
M_encrypt_token(token_data) ==
    fernet_encrypt(VaultKey,
        [ valid |-> TRUE,
          members |-> IF Len(json_dumps(token_data).members) = 0 THEN << >>
                      ELSE << json_dumps(token_data).members[1] >> ])

\* TokenEncryption.encrypt_token
encrypt_token(token_data) == fernet_encrypt(VaultKey, json_dumps(token_data))

\* what changing one character of a stored blob can give: a string that
\* base64 no longer decodes, a string that decodes to other bytes (the
\* HMAC of the Fernet token then fails), or - for a character whose low
\* bits are padding - a string that decodes to the same bytes
Tamperings == { "undecodable", "other_bytes", "same_bytes" }

tamper(blob, how) ==
    CASE how = "undecodable" -> [blob EXCEPT !.decodable = FALSE]
      [] how = "other_bytes" -> [blob EXCEPT !.mac_ok = FALSE]
      [] OTHER -> blob

\* a failure answered with a default credential instead of None
M_decrypt_token(blob) ==
    IF ~blob.decodable THEN Dict({ << "access_token", "" >> })
    ELSE IF blob.key # VaultKey \/ ~blob.mac_ok THEN Dict({ << "access_token", "" >> })
    ELSE IF ~blob.text.valid THEN Dict({ << "access_token", "" >> })
    ELSE json_loads(blob.text)

\* TokenEncryption.decrypt_token: base64 decode, Fernet decrypt with the
\* vault's key, json.loads; every exception is caught and None returned
decrypt_token(blob) ==
    IF ~blob.decodable THEN PyNone
    ELSE IF blob.key # VaultKey \/ ~blob.mac_ok THEN PyNone
    ELSE IF ~blob.text.valid THEN PyNone
    ELSE json_loads(blob.text)


\* credential structures the callers hand to encrypt_token: dicts with any
\* of the token keys
TokenDicts ==
    { Dict(items) : items \in
        { its \in SUBSET ({ TokenKeys[i] : i \in DOMAIN TokenKeys } \X TokenValues) :
            \A a \in its, b \in its : a[1] = b[1] => a = b } }

IdleVault ==
    [pc |-> "idle", token_data |-> PyNone, blob |-> encrypt_token(PyNone),
     touched |-> "no", out |-> PyNone, raised |-> None]

\* encrypt_token(token_data), the blob being stored
EncryptToken(token_data) ==
    /\ vault.pc = "idle"
    /\ vault' = [vault EXCEPT !.pc = "stored", !.token_data = token_data,
                              !.blob = encrypt_token(token_data)]
    /\ UNCHANGED << edgeVars, wabaActive, committed, nextId, credential, send, provider_log,
                    ai_fault, ingestVars >>

\* the stored blob has one character changed
TamperBlob(how) ==
    /\ vault.pc = "stored" /\ vault.touched = "no"
    /\ vault' = [vault EXCEPT !.blob = tamper(@, how), !.touched = how]
    /\ UNCHANGED << edgeVars, wabaActive, committed, nextId, credential, send, provider_log,
                    ai_fault, ingestVars >>

\* JWT_SECRET is changed between the write and the read: the stored blob
\* is one made under a key that is not the vault's any more
RotateSecret ==
    /\ vault.pc = "stored" /\ vault.touched = "no"
    /\ vault' = [vault EXCEPT !.blob = [@ EXCEPT !.key = "k2"], !.touched = "other_key"]
    /\ UNCHANGED << edgeVars, wabaActive, committed, nextId, credential, send, provider_log,
                    ai_fault, ingestVars >>

\* decrypt_token(blob): it returns, it never raises
DecryptToken ==
    /\ vault.pc = "stored"
    /\ vault' = [vault EXCEPT !.pc = "decrypted", !.out = decrypt_token(vault.blob),
                              !.raised = None]
    /\ UNCHANGED << edgeVars, wabaActive, committed, nextId, credential, send, provider_log,
                    ai_fault, ingestVars >>

\* ------------------------------------------------------------ send_message
IdleSend ==
    [pc |-> "idle", user_id |-> 0, phone_number_id |-> None, waba_info |-> NotFound,
     provider_id |-> None, outcome |-> None, detail |-> None, error |-> << >>,
     message_id |-> None]

\* the access token _store_waba_credentials stored for an account
WabaToken(w) == IF w = 11 THEN "tokA" ELSE "tokB"

AccessTokenDict(tok) == Dict({ << "access_token", tok >> })

\* access_token_encrypted as _store_waba_credentials writes it
StoredCredential(w) == encrypt_token(AccessTokenDict(WabaToken(w)))

\* what the column can hold when a send reads it: the stored blob, the blob
\* with a character changed, a blob made under another JWT_SECRET, and a
\* blob of a dict without "access_token"
CredentialBlobs(w) ==
    { StoredCredential(w),
      tamper(StoredCredential(w), "other_bytes"),
      fernet_encrypt("k2", json_dumps(AccessTokenDict(WabaToken(w)))),
      encrypt_token(Dict({ << "refresh_token", WabaToken(w) >> })) }

\* answers of the provider send API: 200 with the id it gave the message,
\* or another status with its error body
ProviderErrors == { "e1", "e2" }

ProviderResponses ==
    { [status |-> 200, body |-> o] : o \in OutIds }
    \cup { [status |-> 400, body |-> e] : e \in ProviderErrors }

\* the provider gives every message it accepts an id of its own
FreshId(resp) ==
    resp.status = 200 =>
        \A i \in DOMAIN provider_log : provider_log[i].response # resp

\* an error text that names the failure without the provider's body
M_meta_api_error(response_text) ==
    << "Meta API send failed: ", "Meta API error" >>

\* str of the WhatsAppError that leaves _send_message_via_meta_api for a
\* status other than 200: raised with the body, caught and raised again
meta_api_error(response_text) ==
    << "Meta API send failed: ", "Meta API error: ", response_text >>

\* the record keyed by an id made locally instead of the provider's
M_OutboundRow(id, user_id, waba_info, message_id) ==
    [ id |-> id,
      user_id |-> user_id,
      waba_id |-> waba_info.waba_id,
      phone_number_id |-> waba_info.phone_id,
      message_id |-> "local",
      direction |-> "outbound",
      contact_phone |-> "c1",
      status |-> "sent",
      ai_processed |-> FALSE,
      predicted_priority |-> None,
      created_at |-> "utcnow" ]

\* WhatsAppMessageV2 row built by send_message
OutboundRow(id, user_id, waba_info, message_id) ==
    [ id |-> id,
      user_id |-> user_id,
      waba_id |-> waba_info.waba_id,
      phone_number_id |-> waba_info.phone_id,
      message_id |-> message_id,
      direction |-> "outbound",
      contact_phone |-> "c1",
      status |-> "sent",
      ai_processed |-> FALSE,
      predicted_priority |-> None,
      created_at |-> "utcnow" ]

\* the except clause of send_message: db.rollback(), raise
\* WhatsAppError("Failed to send message: " + str(e))
SendFailed(s, user_id, phone_number_id, detail, msg) ==
    send' = [send EXCEPT ![s] =
                [pc |-> "done", user_id |-> user_id, phone_number_id |-> phone_number_id,
                 waba_info |-> NotFound, provider_id |-> None,
                 outcome |-> "WhatsAppError", detail |-> detail,
                 error |-> << "Failed to send message: " >> \o msg,
                 message_id |-> None]]

\* encrypted_token_data["access_token"]
access_token(token_data) == Get(token_data, "access_token")

\* send_message up to the answer of the provider send API
SendMessage(s, user_id, phone_number_id, resp) ==
    /\ send[s].pc = "idle"
    /\ FreshId(resp)
    /\ UNCHANGED << edgeVars, wabaActive, ai_fault, vault, committed, nextId, credential, ingestVars >>
    /\ LET waba_info == get_user_waba_for_phone(user_id, phone_number_id, OpenSession)
           token_data == decrypt_token(credential[waba_info.waba_id])
       IN
       CASE waba_info = NotFound ->
              /\ SendFailed(s, user_id, phone_number_id, "not_found_or_not_authorized",
                            << "Phone number not found or not authorized" >>)
              /\ UNCHANGED provider_log
         [] waba_info # NotFound /\ Falsy(token_data) ->
              \* if not encrypted_token_data: raise WhatsAppError
              /\ SendFailed(s, user_id, phone_number_id, "decrypt_failed",
                            << "Failed to decrypt access token" >>)
              /\ UNCHANGED provider_log
         [] waba_info # NotFound /\ ~Falsy(token_data)
                                 /\ ~HasKey(token_data, "access_token") ->
              \* KeyError
              /\ SendFailed(s, user_id, phone_number_id, "key_error",
                            << "'access_token'" >>)
              /\ UNCHANGED provider_log
         [] OTHER ->
              /\ provider_log' = Append(provider_log,
                    [sender |-> s, phone_number_id |-> phone_number_id,
                     access_token |-> access_token(token_data), response |-> resp])
              /\ IF resp.status # 200
                 THEN SendFailed(s, user_id, phone_number_id, "meta_api_error",
                                 meta_api_error(resp.body))
                 ELSE send' = [send EXCEPT ![s] =
                        [pc |-> "store", user_id |-> user_id,
                         phone_number_id |-> phone_number_id, waba_info |-> waba_info,
                         provider_id |-> resp.body, outcome |-> None, detail |-> None,
                         error |-> << >>, message_id |-> None]]

\* send_message from db.add to the return: the record and the commit
StoreSentMessage(s) ==
    /\ send[s].pc = "store"
    /\ UNCHANGED << edgeVars, wabaActive, ai_fault, vault, credential, provider_log, ingestVars >>
    /\ LET row == OutboundRow(nextId, send[s].user_id, send[s].waba_info, send[s].provider_id) IN
       IF unique_violation(committed, row)
       THEN /\ SendFailed(s, send[s].user_id, send[s].phone_number_id, "integrity_error",
                          << "IntegrityError" >>)
            /\ UNCHANGED << committed, nextId >>
       ELSE /\ \A r \in Requests : ~unique_violation(session[r].rows, row)
            /\ committed' = committed \cup {row}
            /\ nextId' = nextId + 1
            /\ send' = [send EXCEPT ![s].pc = "done", ![s].outcome = "success",
                                     ![s].message_id = row.message_id]

\* send_message when db.commit() raises after the provider accepted the
\* message (the connection is lost, the database refuses the INSERT): the
\* except clause rolls back and raises WhatsAppError
StoreSentMessageFails(s) ==
    /\ send[s].pc = "store"
    /\ SendFailed(s, send[s].user_id, send[s].phone_number_id, "commit_failed",
                  << "commit failed" >>)
    /\ UNCHANGED << edgeVars, wabaActive, ai_fault, vault, credential, provider_log,
                    committed, nextId, ingestVars >>

\* ------------------------------------------------- webhook verification
\* query parameters of the verification request; None is a parameter that
\* is not in the query string (query_params.get returns None)
Modes == { None, "subscribe", "unsubscribe", "" }

Tokens == { None, "", "secret", "wrong" }

Challenges == { None, "ch1", "ch2" }

\* settings.WHATSAPP_WEBHOOK_VERIFY_TOKEN: the environment's value, "" when
\* the variable is not set
ConfiguredTokens == { "", "secret" }

IdleVerification ==
    [pc |-> "idle", mode |-> None, token |-> None, challenge |-> None,
     configured |-> "", via |-> None, code |-> 0, body |-> None]

\* a check that does not look at the mode
M_verified(mode, token, configured) == token = configured

\* mode == "subscribe" and token == settings.WHATSAPP_WEBHOOK_VERIFY_TOKEN
verified(mode, token, configured) == mode = "subscribe" /\ token = configured

\* PlainTextResponse(challenge): the body is the challenge, empty for None
PlainText(challenge) == IF challenge = None THEN "" ELSE challenge

\* GET /webhook and GET /v2/webhook/{phone_number_id}: the HTTPException
\* 403 is raised inside the try, caught by `except Exception` and raised
\* again as HTTPException 500 with its text
VerifyWebhook(route) ==
    /\ verification.pc = "idle"
    /\ verification' =
          IF verified(verification.mode, verification.token, verification.configured)
          THEN [verification EXCEPT !.pc = "done", !.via = route, !.code = 200,
                                    !.body = PlainText(verification.challenge)]
          ELSE [verification EXCEPT !.pc = "done", !.via = route, !.code = 500,
                                    !.body = "Verification failed"]
    /\ UNCHANGED << cache, wabaActive, committed, nextId, credential, send, provider_log,
                    vault, ai_fault, ingestVars >>

\* WhatsAppService.verify_webhook: token[:10] in the log line raises
\* TypeError for a missing token, and the except clause returns None
ServiceVerifyWebhook ==
    /\ verification.pc = "idle"
    /\ verification' =
          IF verification.token # None
             /\ verified(verification.mode, verification.token, verification.configured)
          THEN [verification EXCEPT !.pc = "done", !.via = "service", !.code = 0,
                                    !.body = verification.challenge]
          ELSE [verification EXCEPT !.pc = "done", !.via = "service", !.code = 0,
                                    !.body = None]
    /\ UNCHANGED << cache, wabaActive, committed, nextId, credential, send, provider_log,
                    vault, ai_fault, ingestVars >>

\* ------------------------------------------------------ analytics cache
\* an entry of performance_cache: whether the key of the user's analytics
\* is set, and the value of the primary-key sequence when it was computed
EmptyCache == [u \in Users |-> [present |-> FALSE, set_at |-> 0]]

\* @cached get_user_analytics_optimized: a hit returns the entry as it is,
\* a miss computes the aggregate and sets it.  The key is made from the
\* arguments, db included, so a hit needs the session's text to repeat:
\* it may or may not.  Entries that outlive their ttl are out of the model
GetUserAnalytics(u, hit) ==
    /\ hit => cache[u].present
    /\ cache' = IF hit THEN cache
                ELSE [cache EXCEPT ![u] = [present |-> TRUE, set_at |-> nextId]]
    /\ ~hit => cache[u] # [present |-> TRUE, set_at |-> nextId]
    /\ UNCHANGED << verification, wabaActive, committed, nextId, credential, send,
                    provider_log, vault, ai_fault, ingestVars >>

\* -------------------------------------------------------- specifications
InitCommon ==
    /\ wabaActive \in [WabaIds -> BOOLEAN]
    /\ committed = {}
    /\ nextId = 1
    /\ pc = [r \in Requests |-> "idle"]
    /\ pos = [r \in Requests |-> [e |-> 1, c |-> 1, m |-> 1]]
    /\ tenant_info = [r \in Requests |-> NotFound]
    /\ processed_messages = [r \in Requests |-> << >>]
    /\ errors = [r \in Requests |-> << >>]
    /\ result = [r \in Requests |-> NoResult]
    /\ session = [r \in Requests |-> OpenSession]
    /\ tasks = << >>
    /\ credential = [w \in WabaIds |-> StoredCredential(w)]
    /\ send = [s \in Senders |-> IdleSend]
    /\ provider_log = << >>
    /\ webhook_ack = [r \in Requests |-> NoResponse]
    /\ vault = IdleVault
    /\ verification = IdleVerification
    /\ cache = EmptyCache
    /\ ai_fault \in AiFaults

Next ==
    \/ \E r \in Requests : RouteWebhookMessage(r)
    \/ \E r \in Requests : RouteChange(r)
    \/ \E r \in Requests : ProcessTenantMessage(r)
    \/ \E r \in Requests : StoreTenantMessage(r)
    \/ \E r \in Requests : Finish(r)
    \/ \E r \in Requests : CloseSession(r)
    \/ \E i \in 1..Len(tasks), o \in AiOutcomes : ProcessMessageWithAiAsync(i, o)

\* webhooks of the concurrent specification: one entry of up to MaxChanges
\* changes, one message per value, delivered twice
GoodMsgs == { Msg(i, "c1") : i \in MsgIds }

SpecChanges ==
    { MsgChange(p, << m >>) : p \in {"p1", "p2"}, m \in GoodMsgs }
    \cup { MsgChange(None, << Msg("m1", "c1") >>),
           MsgChange("p9", << Msg("m1", "c1") >>) }

Malformed ==
    { Payload("not_dict", << >>), Payload("no_entry", << >>),
      Payload("entry_scalar", << >>), Payload("ok", << >>) }

Payloads ==
    Malformed \cup { Payload("ok", << cs >>) : cs \in SeqUpTo(SpecChanges, MaxChanges) }

\* two deliveries of the same webhook, each request with its own session
Init ==
    /\ InitCommon
    /\ \E p \in Payloads : payload = [r \in Requests |-> p]

Spec == Init /\ [][Next]_vars

\* webhooks of the batch specification: up to MaxBatch entries of one
\* change each; the message of entry i has its own id BatchIds[i]
BatchIds == << "m1", "m2", "m3", "m4", "m5", "m6", "m7" >>

BatchKinds == { "p1", "p2", "missing", "same", "nofrom" }

BatchChange(kind, i) ==
    CASE kind = "p1" -> MsgChange("p1", << Msg(BatchIds[i], "c1") >>)
      [] kind = "p2" -> MsgChange("p2", << Msg(BatchIds[i], "c1") >>)
      [] kind = "missing" -> MsgChange(None, << Msg(BatchIds[i], "c1") >>)
      [] kind = "same" -> MsgChange("p2", << Msg(BatchIds[1], "c1") >>)
      [] kind = "nofrom" -> MsgChange("p1", << Msg(BatchIds[i], None) >>)

BatchPayloads ==
    { Payload("ok", [i \in 1..Len(ks) |-> << BatchChange(ks[i], i) >>]) :
        ks \in SeqUpTo(BatchKinds, MaxBatch) }

InitBatch ==
    /\ wabaActive \in [WabaIds -> BOOLEAN]
    /\ committed = {}
    /\ nextId = 1
    /\ \E p \in BatchPayloads :
          payload = [r \in Requests |-> IF r = "r1" THEN p ELSE Payload("ok", << >>)]
    /\ pc = [r \in Requests |-> IF r = "r1" THEN "idle" ELSE "closed"]
    /\ pos = [r \in Requests |-> [e |-> 1, c |-> 1, m |-> 1]]
    /\ tenant_info = [r \in Requests |-> NotFound]
    /\ processed_messages = [r \in Requests |-> << >>]
    /\ errors = [r \in Requests |-> << >>]
    /\ result = [r \in Requests |-> NoResult]
    /\ session = [r \in Requests |->
                    IF r = "r1" THEN OpenSession
                    ELSE [state |-> "closed", rows |-> {}, webhooks |-> 0]]
    /\ tasks = << >>
    /\ credential = [w \in WabaIds |-> StoredCredential(w)]
    /\ send = [s \in Senders |-> IdleSend]
    /\ provider_log = << >>
    /\ webhook_ack = [r \in Requests |-> NoResponse]
    /\ vault = IdleVault
    /\ verification = IdleVerification
    /\ cache = EmptyCache
    /\ ai_fault = None

SpecBatch == InitBatch /\ [][Next]_vars

\* send requests and one webhook against any state of the accounts and
\* their credentials
InitSend ==
    /\ wabaActive \in [WabaIds -> BOOLEAN]
    /\ \E b1 \in CredentialBlobs(11), b2 \in CredentialBlobs(12) :
          credential = [w \in WabaIds |-> IF w = 11 THEN b1 ELSE b2]
    /\ committed = {}
    /\ nextId = 1
    /\ \E ph \in PhoneNumberIds :
          payload = [r \in Requests |->
                       IF r = "r1"
                       THEN Payload("ok", << << MsgChange(ph, << Msg("m1", "c1") >>) >> >>)
                       ELSE Payload("ok", << >>)]
    /\ pc = [r \in Requests |-> IF r = "r1" THEN "idle" ELSE "closed"]
    /\ pos = [r \in Requests |-> [e |-> 1, c |-> 1, m |-> 1]]
    /\ tenant_info = [r \in Requests |-> NotFound]
    /\ processed_messages = [r \in Requests |-> << >>]
    /\ errors = [r \in Requests |-> << >>]
    /\ result = [r \in Requests |-> NoResult]
    /\ session = [r \in Requests |->
                    IF r = "r1" THEN OpenSession
                    ELSE [state |-> "closed", rows |-> {}, webhooks |-> 0]]
    /\ tasks = << >>
    /\ send = [s \in Senders |-> IdleSend]
    /\ provider_log = << >>
    /\ webhook_ack = [r \in Requests |-> NoResponse]
    /\ vault = IdleVault
    /\ verification = IdleVerification
    /\ cache = EmptyCache
    /\ ai_fault \in AiFaults

NextSend ==
    \/ \E r \in Requests : RouteWebhookMessage(r)
    \/ \E r \in Requests : RouteChange(r)
    \/ \E r \in Requests : ProcessTenantMessage(r)
    \/ \E r \in Requests : StoreTenantMessage(r)
    \/ \E r \in Requests : Finish(r)
    \/ \E r \in Requests : CloseSession(r)
    \/ \E i \in 1..Len(tasks), o \in AiOutcomes : ProcessMessageWithAiAsync(i, o)
    \/ \E s \in Senders, u \in Users, p \in PhoneNumberIds, resp \in ProviderResponses :
          SendMessage(s, u, p, resp)
    \/ \E s \in Senders : StoreSentMessage(s)

SpecSend == InitSend /\ [][NextSend]_vars

\* deliveries one after the other: the second request starts when the first
\* has returned and its session is closed
InTurn(r) == r = "r1" \/ pc["r1"] = "closed"

NextSeq ==
    \/ \E r \in Requests : InTurn(r) /\ RouteWebhookMessage(r)
    \/ \E r \in Requests : RouteChange(r)
    \/ \E r \in Requests : ProcessTenantMessage(r)
    \/ \E r \in Requests : StoreTenantMessage(r)
    \/ \E r \in Requests : Finish(r)
    \/ \E r \in Requests : CloseSession(r)
    \/ \E i \in 1..Len(tasks), o \in AiOutcomes : ProcessMessageWithAiAsync(i, o)

SpecSeq == Init /\ [][NextSeq]_vars

\* one webhook whose single value carries up to MaxFlood messages of one
\* tenant, every message with its own id
FloodIds == << "m1", "m2", "m3", "m4", "m5", "m6",
               "m7", "m8", "m9", "m10", "m11", "m12" >>

\* "good": n messages to store; "dups": n times the same message; "bad":
\* a value without phone_number_id, then n messages the first of which has
\* no sender
FloodKinds == { "good", "dups", "bad" }

FloodPayload(kind, n) ==
    CASE kind = "good" ->
           Payload("ok", << << MsgChange("p1", [i \in 1..n |-> Msg(FloodIds[i], "c1")]) >> >>)
      [] kind = "dups" ->
           Payload("ok", << << MsgChange("p1", [i \in 1..n |-> Msg(FloodIds[1], "c1")]) >> >>)
      [] kind = "bad" ->
           Payload("ok", << << MsgChange(None, << Msg(FloodIds[1], "c1") >>),
                               MsgChange("p1", [i \in 1..n |->
                                   Msg(FloodIds[i], IF i = 1 THEN None ELSE "c1")]) >> >>)

InitFlood ==
    /\ wabaActive = [w \in WabaIds |-> TRUE]
    /\ committed = {}
    /\ nextId = 1
    /\ \E kind \in FloodKinds, n \in 1..MaxFlood :
          payload = [r \in Requests |->
                       IF r = "r1" THEN FloodPayload(kind, n) ELSE Payload("ok", << >>)]
    /\ pc = [r \in Requests |-> IF r = "r1" THEN "idle" ELSE "closed"]
    /\ pos = [r \in Requests |-> [e |-> 1, c |-> 1, m |-> 1]]
    /\ tenant_info = [r \in Requests |-> NotFound]
    /\ processed_messages = [r \in Requests |-> << >>]
    /\ errors = [r \in Requests |-> << >>]
    /\ result = [r \in Requests |-> NoResult]
    /\ session = [r \in Requests |->
                    IF r = "r1" THEN OpenSession
                    ELSE [state |-> "closed", rows |-> {}, webhooks |-> 0]]
    /\ tasks = << >>
    /\ credential = [w \in WabaIds |-> StoredCredential(w)]
    /\ send = [s \in Senders |-> IdleSend]
    /\ provider_log = << >>
    /\ webhook_ack = [r \in Requests |-> NoResponse]
    /\ vault = IdleVault
    /\ verification = IdleVerification
    /\ cache = EmptyCache
    /\ ai_fault = None

SpecFlood == InitFlood /\ [][Next]_vars

\* the webhook of SpecFlood under fair scheduling: the event loop runs
\* every task that is ready, the request handler and the enrichment tasks
\* alike, so a step that stays possible is taken
SpecLive == InitFlood /\ [][Next]_vars /\ WF_vars(Next)

\* the webhook of SpecFlood with a client that may go away at any await
NextCancel ==
    \/ Next
    \/ \E r \in Requests : Cancel(r)

SpecCancel == InitFlood /\ [][NextCancel]_vars

\* one verification request with any parameters against any setting
InitVerify ==
    /\ wabaActive = [w \in WabaIds |-> TRUE]
    /\ committed = {}
    /\ nextId = 1
    /\ payload = [r \in Requests |-> Payload("ok", << >>)]
    /\ pc = [r \in Requests |-> "closed"]
    /\ pos = [r \in Requests |-> [e |-> 1, c |-> 1, m |-> 1]]
    /\ tenant_info = [r \in Requests |-> NotFound]
    /\ processed_messages = [r \in Requests |-> << >>]
    /\ errors = [r \in Requests |-> << >>]
    /\ result = [r \in Requests |-> NoResult]
    /\ session = [r \in Requests |-> [state |-> "closed", rows |-> {}, webhooks |-> 0]]
    /\ tasks = << >>
    /\ credential = [w \in WabaIds |-> StoredCredential(w)]
    /\ send = [s \in Senders |-> IdleSend]
    /\ provider_log = << >>
    /\ webhook_ack = [r \in Requests |-> NoResponse]
    /\ vault = IdleVault
    /\ ai_fault = None
    /\ cache = EmptyCache
    /\ \E mo \in Modes, t \in Tokens, ch \in Challenges, cf \in ConfiguredTokens :
          verification = [IdleVerification EXCEPT !.mode = mo, !.token = t,
                                                  !.challenge = ch, !.configured = cf]

NextVerify ==
    \/ \E route \in { "webhook", "v2_webhook" } : VerifyWebhook(route)
    \/ ServiceVerifyWebhook

SpecVerify == InitVerify /\ [][NextVerify]_vars

\* sends and one webhook of tenant 1 with the analytics of the users read
\* at any moment
InitCache ==
    /\ InitSend
    /\ wabaActive = [w \in WabaIds |-> TRUE]
    /\ credential = [w \in WabaIds |-> StoredCredential(w)]
    /\ payload["r1"] = Payload("ok", << << MsgChange("p1", << Msg("m1", "c1") >>) >> >>)
    /\ ai_fault = None

NextCache ==
    \/ NextSend
    \/ \E u \in Users, hit \in BOOLEAN : GetUserAnalytics(u, hit)

SpecCache == InitCache /\ [][NextCache]_vars

\* the sends of SpecCache against a database whose commit can fail
NextStore ==
    \/ NextSend
    \/ \E s \in Senders : StoreSentMessageFails(s)

SpecStore == InitCache /\ [][NextStore]_vars

\* the vault alone: a credential structure is encrypted, the blob is kept
\* as it is, changed or outlives the secret, and is decrypted
InitVault ==
    /\ InitBatch
    /\ wabaActive = [w \in WabaIds |-> TRUE]
    /\ payload["r1"] = Payload("ok", << >>)

NextVault ==
    \/ \E x \in TokenDicts : EncryptToken(x)
    \/ \E how \in Tamperings : TamperBlob(how)
    \/ RotateSecret
    \/ DecryptToken

SpecVault == InitVault /\ [][NextVault]_vars

\* ---------------------------------------------------------------- claims
Last(s) == s[Len(s)]

Outcomes(r) == { processed_messages[r][i] : i \in DOMAIN processed_messages[r] }

Returned(r) == pc[r] \in {"returned", "closed"}

\* the changes of a payload, in the order of the walk
Changes(p) == UNION { { p.entry[e][c] : c \in DOMAIN p.entry[e] } : e \in DOMAIN p.entry }

\* (tenant, provider message id) of the valid messages of a payload whose
\* phone_number_id is bound to an active account
ValidRouted(p) ==
    UNION { { << x[1].user_id, ch.messages[i].id >> :
                 i \in { j \in DOMAIN ch.messages :
                           ch.messages[j].id # None /\ ch.messages[j].from # None },
                 x \in { y \in Joined : y[2].phone_number_id = ch.phone
                                        /\ wabaActive[y[1].id] } }
            : ch \in { c \in Changes(p) : c.field = "messages" /\ c.value } }

\* C1 (as claimed): after the same payload was ingested twice in sequence,
\* each valid routed message has exactly one persisted MessageRecord and
\* the second ingestion reported it as a duplicate.
Cex_C1 ==
    (pc["r1"] = "closed" /\ Returned("r2") /\ payload["r2"] = payload["r1"]) =>
        \A um \in ValidRouted(payload["r1"]) :
            /\ Cardinality(existing_message(committed, um[2], um[1])) = 1
            /\ [status |-> "duplicate", message_id |-> um[2], tenant_id |-> um[1]]
                   \in Outcomes("r2")

\* C2: the database never holds two MessageRecords with the same tenant and
\* provider message id, whether committed or written by a transaction that
\* is still open, however two ingest calls interleave.
Thm_C2 ==
    \A x \in AllRows, y \in AllRows :
        (x.user_id = y.user_id /\ x.message_id = y.message_id) => x = y

\* two calls interleave lookup and insert on one message: one has written
\* its record, the other has passed its lookup and is about to insert
W_C2 ==
    \E r \in Requests, o \in Requests :
        /\ r # o
        /\ pc[r] = "insert"
        /\ \E x \in session[o].rows :
              x.message_id = CurMessage(r).id /\ x.user_id = tenant_info[r].user_id

Appended(r) == Len(processed_messages'[r]) = Len(processed_messages[r]) + 1

C3Step ==
    /\ \A r \in Requests :
         (Appended(r) /\ Last(processed_messages'[r]).status = "duplicate") =>
            /\ existing_message(Visible(r), Last(processed_messages'[r]).message_id,
                                Last(processed_messages'[r]).tenant_id) # {}
            /\ tasks' = tasks
            /\ session'[r].rows = session[r].rows
            /\ committed' = committed
    /\ \A r \in Requests :
         (Appended(r) /\ Last(processed_messages'[r]).status = "processed") =>
            \E row \in session'[r].rows :
               /\ row \notin session[r].rows
               /\ session'[r].rows = session[r].rows \cup {row}
               /\ row.direction = "inbound"
               /\ Len(tasks') = Len(tasks) + 1
               /\ Last(tasks').id = row.id
    /\ Len(tasks') # Len(tasks) =>
         \E r \in Requests :
            Appended(r) /\ Last(processed_messages'[r]).status = "processed"
    /\ \A i \in DOMAIN tasks', j \in DOMAIN tasks' :
         tasks'[i].id = tasks'[j].id => i = j

\* C3: a message classified as duplicate causes no write and no enrichment
\* task; each newly written inbound MessageRecord gets exactly one
\* enrichment task, and no task is scheduled in any other step.
Thm_C3 == [][C3Step]_vars

\* one request has stored a message and met it again as a duplicate
W_C3 ==
    \E r \in Requests :
        /\ \E o \in Outcomes(r) : o.status = "processed"
        /\ \E o \in Outcomes(r) : o.status = "duplicate"
        /\ Len(tasks) = Cardinality({ i \in DOMAIN processed_messages[r] :
                                        processed_messages[r][i].status = "processed" })

\* not an object, no list of entries, or an empty list of entries
IsMalformed(p) == p.shape # "ok" \/ p.entry = << >>

NothingProcessed(r) ==
    /\ processed_messages[r] = << >>
    /\ tenant_info[r] = NotFound
    /\ session[r].rows = {}
    /\ result[r].processed_count = 0

C4Step ==
    \A r \in Requests :
        (pc[r] = "idle" /\ pc'[r] # "idle" /\ IsMalformed(payload[r])) =>
            /\ pc'[r] = "returned"
            /\ result'[r].kind # "aggregate"
            /\ result'[r].processed_count = 0
            /\ result'[r].success = (payload[r] = Payload("ok", << >>))
            /\ UNCHANGED << committed, nextId, session, tasks, tenant_info,
                            processed_messages, errors, pos >>

RECURSIVE Flatten(_)
Flatten(ss) == IF ss = << >> THEN << >> ELSE Head(ss) \o Flatten(Tail(ss))

\* the values of a payload in the order of the walk
Values(p) == Flatten(p.entry)

\* accounts that are active and own a phone record with this identifier
ActiveOwner(ph) ==
    { y \in Joined : y[2].phone_number_id = ph /\ wabaActive[y[1].id] }

\* every value carries exactly one message with an id
OneMessageEach(vs) ==
    \A i \in DOMAIN vs :
        /\ vs[i].field = "messages" /\ vs[i].value
        /\ Len(vs[i].messages) = 1
        /\ vs[i].messages[1].id # None

\* the values that have a routing key carry pairwise different message ids
NewMessages(vs) ==
    \A i \in DOMAIN vs, j \in DOMAIN vs :
        (i # j /\ vs[i].phone # None /\ vs[j].phone # None)
            => vs[i].messages[1].id # vs[j].messages[1].id

\* a batch of new routable messages, one per value, some values without
\* metadata.phone_number_id
C5Case(p) ==
    /\ p.shape = "ok" /\ Values(p) # << >>
    /\ OneMessageEach(Values(p))
    /\ NewMessages(Values(p))
    /\ \A i \in DOMAIN Values(p) :
          /\ Values(p)[i].messages[1].from # None
          /\ Values(p)[i].phone = None \/ ActiveOwner(Values(p)[i].phone) # {}

MissingKey(p) == { i \in DOMAIN Values(p) : Values(p)[i].phone = None }

ValueStep(r) == pc[r] = "change" /\ (pc'[r] # "change" \/ pos'[r] # pos[r])

C6Step ==
    \A r \in Requests :
        ( /\ ValueStep(r)
          /\ CurChange(r).field = "messages" /\ CurChange(r).value
          /\ CurChange(r).phone # None
          /\ find_tenant_for_phone(CurChange(r).phone, session[r]) = NotFound ) =>
            /\ Len(errors'[r]) = Len(errors[r]) + 1
            /\ SubSeq(errors'[r], 1, Len(errors[r])) = errors[r]
            /\ Last(errors'[r]).kind = "no_tenant"
            /\ Last(errors'[r]).kind \notin {"invalid_structure", "exception"}
            /\ Last(errors'[r]).detail = CurChange(r).phone
            /\ UNCHANGED << session, committed, tasks, processed_messages, nextId >>
            /\ pos'[r] = NextChangePos(Entries(r), pos[r].e, pos[r].c + 1)
            /\ pc'[r] = IF pos'[r].e > Len(Entries(r)) THEN "finish" ELSE "change"

\* C6: when the lookup of a value's phone_number_id returns NotFound, the
\* request records exactly one error of the kind no-tenant (not a
\* validation failure), writes no MessageRecord and schedules nothing for
\* that value, and goes on with the next value of the batch.
Thm_C6 == [][C6Step]_vars

\* the first value of a batch had no tenant and a later value was stored
W_C6 ==
    \E r \in Requests :
        /\ pc[r] = "returned"
        /\ Len(errors[r]) = 1
        /\ errors[r][1].kind = "no_tenant" /\ errors[r][1].entry = 1
        /\ \E x \in session[r].rows : x.message_id = "m2"
        /\ result[r].kind = "aggregate"

\* C7: _find_tenant_for_phone and _get_user_waba_for_phone return NotFound
\* for a phone identifier bound to no PhoneRecord and for one whose business
\* account is not active; a route they return is that of an active account
\* owning the phone; no message is routed and no send reaches the provider
\* through a phone of an inactive or unknown account.
Thm_C7 ==
    /\ \A ph \in PhoneNumberIds :
          LET t == find_tenant_for_phone(ph, OpenSession) IN
          /\ ActiveOwner(ph) = {} => t = NotFound
          /\ t # NotFound => \E y \in ActiveOwner(ph) : t = RouteOf(y)
    /\ \A ph \in PhoneNumberIds, u \in Users :
          LET t == get_user_waba_for_phone(u, ph, OpenSession) IN
          /\ ActiveOwner(ph) = {} => t = NotFound
          /\ t # NotFound => \E y \in ActiveOwner(ph) : t = RouteOf(y)
    /\ \A r \in Requests :
          pc[r] \in {"dupcheck", "insert"} => ActiveOwner(CurChange(r).phone) # {}
    /\ \A x \in AllRows : wabaActive[x.waba_id]
    /\ \A i \in DOMAIN provider_log : ActiveOwner(provider_log[i].phone_number_id) # {}

\* an inbound value and a send by the owner were both refused for a phone
\* whose account is deactivated, and a send through an unknown phone too
W_C7 ==
    /\ \E i \in DOMAIN errors["r1"] :
          /\ errors["r1"][i].kind = "no_tenant"
          /\ errors["r1"][i].detail = "p1"
    /\ send["s1"].pc = "done" /\ send["s1"].phone_number_id = "p1"
    /\ send["s1"].user_id = 1
    /\ send["s1"].detail = "not_found_or_not_authorized"
    /\ send["s2"].pc = "done" /\ send["s2"].phone_number_id = "p9"
    /\ send["s2"].detail = "not_found_or_not_authorized"
    /\ ~wabaActive[11]

C9Case(p) ==
    /\ p.shape = "ok" /\ Len(Values(p)) = 2
    /\ OneMessageEach(Values(p))
    /\ Values(p)[1].messages[1].id = Values(p)[2].messages[1].id
    /\ \A i \in 1..2 : Values(p)[i].messages[1].from # None
    /\ \E y1 \in ActiveOwner(Values(p)[1].phone), y2 \in ActiveOwner(Values(p)[2].phone) :
          y1[1].user_id # y2[1].user_id

\* C9 (as claimed): the same provider message id routed to two tenants
\* gives one MessageRecord per tenant, no duplicate and no error.
Cex_C9 ==
    \A r \in Requests :
        (pc[r] = "returned" /\ C9Case(payload[r])) =>
            /\ result[r].error_count = 0
            /\ result[r].processed_count = 2
            /\ \A o \in Outcomes(r) : o.status = "processed"
            /\ \A u \in Users : Cardinality({ x \in session[r].rows : x.user_id = u }) = 1

\* a batch of new routable messages, one per value, where the write of at
\* least one fails (contact_phone is NOT NULL and the message has no from)
C10Case(p) ==
    /\ p.shape = "ok" /\ Values(p) # << >>
    /\ OneMessageEach(Values(p))
    /\ NewMessages(Values(p))
    /\ \A i \in DOMAIN Values(p) : ActiveOwner(Values(p)[i].phone) # {}
    /\ \E i \in DOMAIN Values(p) : Values(p)[i].messages[1].from = None

Writable(p) == { i \in DOMAIN Values(p) : Values(p)[i].messages[1].from # None }

\* C10 (as claimed): a failed write is one per-message error; the records
\* written before it in the batch stay and the valid messages after it are
\* written and counted as processed.
Cex_C10 ==
    \A r \in Requests :
        (pc[r] = "returned" /\ C10Case(payload[r])) =>
            /\ result[r].processed_count = Cardinality(Writable(payload[r]))
            /\ result[r].error_count =
                  Len(Values(payload[r])) - Cardinality(Writable(payload[r]))
            /\ { x.message_id : x \in session[r].rows }
                  = { Values(payload[r])[i].messages[1].id : i \in Writable(payload[r]) }

\* the steps of request r
RequestStep(r) ==
    \/ RouteWebhookMessage(r)
    \/ RouteChange(r)
    \/ ProcessTenantMessage(r)
    \/ StoreTenantMessage(r)
    \/ Finish(r)
    \/ CloseSession(r)

\* C11: a request whose payload passed the validation always goes on to
\* the aggregate result, whatever routing, duplicate or persistence errors
\* its items met: the result counts the outcomes and the errors, and the
\* webhook caller is answered 200 "success" with that result.
Thm_C11 ==
    \A r \in Requests :
        validate(payload[r]) = "walk" =>
            /\ pc[r] # "closed" => ENABLED RequestStep(r)
            /\ Returned(r) =>
                  /\ result[r].kind = "aggregate"
                  /\ result[r].processed_count = Len(processed_messages[r])
                  /\ result[r].error_count = Len(errors[r])
            /\ pc[r] = "closed" =>
                  /\ webhook_ack[r].code = 200
                  /\ webhook_ack[r].status = "success"
                  /\ webhook_ack[r].processed = result[r]

\* a batch with a stored message, a duplicate, a failed write and a value
\* that found no tenant was acknowledged
W_C11 ==
    \E r \in Requests :
        /\ pc[r] = "closed"
        /\ validate(payload[r]) = "walk"
        /\ \E o \in Outcomes(r) : o.status = "duplicate"
        /\ \E o \in Outcomes(r) : o.status = "processed"
        /\ \E i \in DOMAIN errors[r] : errors[r][i].detail = "integrity_error"
        /\ \E i \in DOMAIN errors[r] : errors[r][i].kind = "no_tenant"
        /\ webhook_ack[r].status = "success"
        /\ ~result[r].success

\* what the caller of send gets: the exception and its text
Failure(s) == << send[s].outcome, send[s].error >>

\* a finished send through a phone of an active account of another user
Unauthorized(s) ==
    /\ send[s].pc = "done"
    /\ ActiveOwner(send[s].phone_number_id) # {}
    /\ \A y \in ActiveOwner(send[s].phone_number_id) : y[1].user_id # send[s].user_id

\* a finished send through a phone identifier bound to no phone record
UnknownPhone(s) ==
    /\ send[s].pc = "done"
    /\ \A y \in Joined : y[2].phone_number_id # send[s].phone_number_id

ProviderCalls(s) == { i \in DOMAIN provider_log : provider_log[i].sender = s }

\* C12 (as claimed): a send through a phone owned by another tenant fails
\* with an error of its own kind, one the caller can tell from the error of
\* a phone that does not exist, of a decryption failure and of a provider
\* rejection; the provider is not called and no record is written.
Cex_C12 ==
    \A s \in Senders :
        Unauthorized(s) =>
            /\ send[s].outcome # "success"
            /\ ProviderCalls(s) = {}
            /\ send[s].message_id = None
            /\ \A x \in committed :
                  x.direction = "outbound" /\ x.user_id = send[s].user_id =>
                      \E t \in Senders \ {s} : send[t].message_id = x.message_id
            /\ \A t \in Senders :
                  ( \/ UnknownPhone(t)
                    \/ send[t].detail \in {"decrypt_failed", "meta_api_error"} ) =>
                        Failure(s) # Failure(t)

\* a blob that is not what the vault made under its key
Undecryptable(blob) ==
    \/ ~blob.decodable
    \/ blob.key # VaultKey
    \/ ~blob.mac_ok
    \/ ~blob.text.valid

\* the account a finished or running send resolved for its caller
RouteOfSend(s) ==
    get_user_waba_for_phone(send[s].user_id, send[s].phone_number_id, OpenSession)

\* C13: a send whose account's stored credential cannot be decrypted fails
\* with the decryption error, calls the provider send API not at all and
\* writes no record; every call that reaches the provider carries the
\* access token stored for the account of the phone, never an empty or
\* default one.
Thm_C13 ==
    /\ \A s \in Senders :
          ( /\ send[s].pc = "done"
            /\ RouteOfSend(s) # NotFound
            /\ Undecryptable(credential[RouteOfSend(s).waba_id]) ) =>
                /\ send[s].outcome = "WhatsAppError"
                /\ send[s].detail = "decrypt_failed"
                /\ send[s].error = << "Failed to send message: ",
                                      "Failed to decrypt access token" >>
                /\ ProviderCalls(s) = {}
                /\ send[s].message_id = None
    /\ \A i \in DOMAIN provider_log :
          \E y \in ActiveOwner(provider_log[i].phone_number_id) :
              /\ ~Undecryptable(credential[y[1].id])
              /\ provider_log[i].access_token = WabaToken(y[1].id)
    /\ \A x \in committed :
          x.direction = "outbound" => ~Undecryptable(credential[x.waba_id])

\* the owner of a phone whose credential was made under another key, and
\* the owner of a phone whose credential was tampered with, were both
\* refused
W_C13 ==
    /\ send["s1"].pc = "done" /\ send["s1"].detail = "decrypt_failed"
    /\ send["s1"].user_id = 1 /\ send["s1"].phone_number_id = "p1"
    /\ credential[11].key # VaultKey
    /\ send["s2"].pc = "done" /\ send["s2"].detail = "decrypt_failed"
    /\ send["s2"].user_id = 2 /\ send["s2"].phone_number_id = "p2"
    /\ ~credential[12].mac_ok
    /\ provider_log = << >>

Cex_C15 ==
    ( vault.pc = "decrypted" /\ vault.touched # "no" ) =>
        /\ vault.raised = "CredentialDecryptionError"
        /\ ~Falsy(vault.out) => vault.out = vault.token_data
        /\ vault.out # PyNone

\* the calls of send s that the provider accepted
Accepted(s) == { i \in ProviderCalls(s) : provider_log[i].response.status = 200 }

\* the calls of send s that the provider rejected
Rejected(s) == { i \in ProviderCalls(s) : provider_log[i].response.status # 200 }

\* C16: a send that the provider accepted ends in success, returns the
\* identifier the provider gave, and has written exactly one MessageRecord
\* with that identifier, direction outbound, status sent, owned by the
\* sending tenant and by the account and phone record the send resolved;
\* outbound records are written by accepted sends only.
Thm_C16 ==
    /\ \A s \in Senders :
          ( send[s].pc = "done" /\ Accepted(s) # {} ) =>
              \E i \in Accepted(s) :
                  LET id == provider_log[i].response.body
                      rows == { x \in committed : x.message_id = id }
                  IN
                  /\ send[s].outcome = "success"
                  /\ send[s].message_id = id
                  /\ Cardinality(rows) = 1
                  /\ \A x \in rows :
                        /\ x.direction = "outbound" /\ x.status = "sent"
                        /\ x.user_id = send[s].user_id
                        /\ \E y \in ActiveOwner(send[s].phone_number_id) :
                              /\ y[1].user_id = send[s].user_id
                              /\ x.waba_id = y[1].id
                              /\ x.phone_number_id = y[2].id
    /\ Cardinality({ x \in committed : x.direction = "outbound" })
          = Cardinality({ s \in Senders : send[s].outcome = "success" })

\* both tenants sent through their own phone and were given o1 and o2
W_C16 ==
    /\ send["s1"].outcome = "success" /\ send["s1"].user_id = 1
    /\ send["s1"].message_id = "o1"
    /\ send["s2"].outcome = "success" /\ send["s2"].user_id = 2
    /\ send["s2"].message_id = "o2"
    /\ \E x \in committed : x.message_id = "o1" /\ x.user_id = 1 /\ x.waba_id = 11
    /\ \E x \in committed : x.message_id = "o2" /\ x.user_id = 2 /\ x.waba_id = 12

\* the text a rejected send ends with: the body the provider answered
ProviderText(s) == send[s].error[Len(send[s].error)]

\* C17: a send that the provider rejected has called the provider exactly
\* once, has written no MessageRecord, and fails with an error whose text
\* ends with the provider's error body as the provider gave it.
Thm_C17 ==
    \A s \in Senders :
        ( send[s].pc = "done" /\ Rejected(s) # {} ) =>
            /\ Cardinality(ProviderCalls(s)) = 1
            /\ send[s].outcome = "WhatsAppError"
            /\ send[s].detail = "meta_api_error"
            /\ send[s].message_id = None
            /\ \A i \in Rejected(s) :
                  /\ ProviderText(s) = provider_log[i].response.body
                  /\ \A x \in committed : x.message_id # provider_log[i].response.body
            /\ Cardinality({ x \in committed : x.direction = "outbound" })
                  = Cardinality({ t \in Senders \ {s} : send[t].outcome = "success" })

\* one send was rejected with e1 and another with e2
W_C17 ==
    /\ send["s1"].pc = "done" /\ send["s1"].detail = "meta_api_error"
    /\ ProviderText("s1") = "e1"
    /\ send["s2"].pc = "done" /\ send["s2"].detail = "meta_api_error"
    /\ ProviderText("s2") = "e2"
    /\ Len(provider_log) = 2
    /\ committed = {}

EnrichmentFields(x) == << x.ai_processed, x.predicted_priority >>

\* the rows of the table with primary key id, wherever they are
RowsWithId(id) == { x \in AllRows : x.id = id }

\* a step that changes the enrichment fields of a record is the first and
\* only run of the task created for that record, and it sets processed
C18Step ==
    \A x \in committed :
        \A y \in committed' :
            ( y.id = x.id /\ EnrichmentFields(y) # EnrichmentFields(x) ) =>
                /\ ~x.ai_processed /\ y.ai_processed
                /\ \E i \in DOMAIN tasks :
                      /\ tasks[i].id = x.id
                      /\ tasks[i].runs = 0 /\ tasks'[i].runs = 1

\* C18: each record has at most one enrichment task, a task runs at most
\* once whether it succeeds or fails (a failed one is not run again), the
\* enrichment fields of a record change only in the run of its own task,
\* and a processed flag that is true stays true.
Thm_C18 ==
    /\ [](\A i \in DOMAIN tasks :
            /\ tasks[i].runs <= 1
            /\ tasks[i].done <=> tasks[i].runs = 1
            /\ \A j \in DOMAIN tasks : tasks[j].id = tasks[i].id => j = i)
    /\ [][C18Step]_vars
    /\ [][\A i \in DOMAIN tasks : tasks[i].done => tasks'[i] = tasks[i]]_vars

\* of two tasks one failed and one succeeded, each after a single run
W_C18 ==
    \E i \in DOMAIN tasks, j \in DOMAIN tasks :
        /\ tasks[i].done /\ tasks[i].outcome = "ai_error" /\ tasks[i].runs = 1
        /\ tasks[j].done /\ tasks[j].outcome = "ok" /\ tasks[j].runs = 1
        /\ \A r \in Requests : pc[r] = "closed"

\* a step in which task i ends in failure
FailedRun(i) ==
    /\ i \in DOMAIN tasks
    /\ ~tasks[i].done
    /\ tasks'[i].done /\ tasks'[i].outcome # "ok"

Running == { i \in DOMAIN tasks : ~tasks[i].done }

\* a limit that a webhook of MaxFlood messages would have to respect
EnrichmentLimit == MaxFlood - 1

\* C20: the number of enrichment tasks running at the same time never
\* exceeds a fixed limit, however many messages were ingested.
Cex_C20 == Cardinality(Running) <= EnrichmentLimit

\* a step in which enrichment task i runs
TaskRun(i) == i \in DOMAIN tasks /\ tasks'[i].runs # tasks[i].runs

\* C21: a run of an enrichment task - with its commit, rollback and close -
\* leaves every request's session as it was: its state, its flushed rows,
\* and no flushed row of a request becomes committed by it; and a request
\* that has its result returns and closes whatever the tasks are doing.
Thm_C21 ==
    /\ [][\A i \in DOMAIN tasks :
            TaskRun(i) =>
                /\ session' = session
                /\ pc' = pc
                /\ \A r \in Requests :
                      session[r].rows \cap committed' \subseteq committed]_vars
    /\ [](\A r \in Requests :
            /\ pc[r] = "finish" => ENABLED Finish(r)
            /\ pc[r] = "returned" => ENABLED CloseSession(r))

\* a task has run while the request that stored its record was still at
\* work with the record flushed in its open transaction, and another task
\* of that request has not run yet
W_C21 ==
    \E r \in Requests, i \in DOMAIN tasks, j \in DOMAIN tasks :
        /\ tasks[i].done /\ tasks[i].outcome = "session_error"
        /\ ~tasks[j].done
        /\ session[r].state = "active"
        /\ pc[r] = "returned"
        /\ \E x \in session[r].rows : x.id = tasks[i].id
        /\ \E x \in session[r].rows : x.id = tasks[j].id

\* the messages request r had stored (flush succeeded, task scheduled)
StoredBy(r) ==
    { processed_messages[r][k].message_id :
        k \in { n \in DOMAIN processed_messages[r] :
                  processed_messages[r][n].status = "processed" } }

\* C22: after the ingestion request was cancelled, every record it had
\* written before the cancellation is still in the table.
Cex_C22 ==
    \A r \in Requests :
        pc[r] = "cancelled" =>
            \A id \in StoredBy(r) : \E x \in AllRows : x.message_id = id

\* the verification was answered by echoing the challenge
Echoed ==
    IF verification.via = "service"
    THEN verification.body = verification.challenge
    ELSE verification.code = 200 /\ verification.body = PlainText(verification.challenge)

\* C23: a verification request is answered with the challenge exactly when
\* its mode is "subscribe" and its token is the configured one; any other
\* request, a missing token included, is rejected (an error status from
\* the endpoints, None from the service) and its answer does not hold the
\* challenge.
Thm_C23 ==
    ( verification.pc = "done" /\ verification.challenge # None ) =>
        /\ Echoed <=> ( /\ verification.mode = "subscribe"
                         /\ verification.token # None
                         /\ verification.token = verification.configured )
        /\ ~Echoed =>
              /\ verification.body # verification.challenge
              /\ verification.via # "service" => verification.code >= 400
              /\ verification.via = "service" => verification.body = None

\* a request with the right token and a mode that is not "subscribe" was
\* rejected
W_C23 ==
    /\ verification.pc = "done"
    /\ verification.via = "v2_webhook"
    /\ verification.challenge = "ch1"
    /\ verification.mode = "unsubscribe"
    /\ verification.token = "secret" /\ verification.configured = "secret"
    /\ verification.code = 500

\* the records written for user u, in the table or flushed
RecordsOf(u) == { x \in AllRows : x.user_id = u }

\* C24: once a record was written for a tenant, no analytics entry of
\* that tenant computed before the write is left in the cache for a later
\* read to return.
Cex_C24 ==
    \A u \in Users :
        cache[u].present => \A x \in RecordsOf(u) : x.id < cache[u].set_at

\* C25: when an ingest call has returned and its session is closed, every
\* message it counted as newly processed has a committed record, visible
\* to the sessions of later requests and of the enrichment tasks.
Cex_C25 ==
    \A r \in Requests :
        pc[r] = "closed" =>
            \A id \in StoredBy(r) : \E x \in committed : x.message_id = id

\* the enrichment task of the record with primary key id has completed
\* without error
EnrichedOk(id) ==
    \E i \in DOMAIN tasks :
        tasks[i].id = id /\ tasks[i].done /\ tasks[i].outcome = "ok"

\* the record with primary key id is processed, with its prediction
Processed(id) ==
    \E x \in AllRows :
        x.id = id /\ x.ai_processed /\ x.predicted_priority # None

\* C26: under fair scheduling, once the enrichment task of an inbound
\* record has completed without error the record eventually is processed
\* with its prediction set.
Cex_C26 == \A id \in 1..MaxFlood : EnrichedOk(id) ~> Processed(id)

\* the outbound records keyed by provider message id `id`
OutboundOf(id) ==
    { x \in committed : x.direction = "outbound" /\ x.message_id = id }

\* the calls of finished sends that the provider accepted
AcceptedCalls ==
    { i \in DOMAIN provider_log :
        /\ provider_log[i].response.status = 200
        /\ send[provider_log[i].sender].pc = "done" }

\* C27: once a send has finished, the message the provider accepted for
\* it has exactly one outbound record, and the send reported success
\* exactly when the provider accepted and the record was committed - a
\* failing commit included.
Cex_C27 ==
    /\ \A i \in AcceptedCalls :
          /\ Cardinality(OutboundOf(provider_log[i].response.body)) = 1
          /\ send[provider_log[i].sender].outcome = "success"
    /\ \A s \in Senders :
          ( send[s].pc = "done" /\ send[s].outcome = "success" ) =>
              \E i \in AcceptedCalls :
                  /\ provider_log[i].sender = s
                  /\ OutboundOf(provider_log[i].response.body) # {}

\* a step of the ingest call of request r
IngestStep(r) ==
    /\ pc[r] \in { "idle", "change", "dupcheck", "insert", "finish" }
    /\ pc'[r] # pc[r] \/ pos'[r] # pos[r]

\* a step of an enrichment task or of a send
OtherWriter ==
    \/ \E i \in DOMAIN tasks : TaskRun(i)
    \/ \E s \in Senders : send'[s] # send[s]

\* C28: a step of an ingest call leaves the committed records, the rows
\* other transactions hold, the accounts and their credentials as they
\* were; what it writes is new inbound records only, and the rows of its
\* own transaction that stay are unchanged (they go only when that
\* transaction is rolled back).  The committed records only grow, and a
\* committed record changes by the enrichment update only.
Thm_C28 ==
    /\ [][\A r \in Requests :
            IngestStep(r) =>
                /\ committed' = committed
                /\ wabaActive' = wabaActive
                /\ credential' = credential
                /\ \A o \in Requests \ {r} : session'[o] = session[o]
                /\ \A y \in session'[r].rows :
                      \/ y \in session[r].rows
                      \/ /\ y = InboundRow(nextId, tenant_info[r], CurMessage(r))
                         /\ \A x \in AllRows : x.id # y.id
                /\ \A x \in session[r].rows :
                      x \in session'[r].rows \/ session'[r].state = "inactive"]_vars
    /\ [][/\ { x.id : x \in committed } \subseteq { y.id : y \in committed' }
          /\ committed' # committed => OtherWriter]_vars

\* an ingest call has stored a record while a record sent before it is
\* committed, unchanged
W_C28 ==
    /\ pc["r1"] = "returned"
    /\ \E x \in session["r1"].rows : x.direction = "inbound"
    /\ \E x \in committed :
          /\ x.direction = "outbound" /\ x.id < nextId - 1
          /\ x.created_at = "utcnow" /\ ~x.ai_processed

\* row y is row x but for the fields the enrichment sets
SameButEnrichment(x, y) ==
    y = [x EXCEPT !.ai_processed = y.ai_processed,
                  !.predicted_priority = y.predicted_priority]

\* C29: the run of an enrichment task keeps every record in the table;
\* the records other than the one it was scheduled for are unchanged, of
\* its tenant or of another, and in its own record nothing changes but
\* the processed flag and the prediction.
Thm_C29 ==
    [][\A i \in DOMAIN tasks :
          TaskRun(i) =>
              /\ Cardinality(committed') = Cardinality(committed)
              /\ \A x \in committed :
                    \E y \in committed' :
                        /\ y.id = x.id
                        /\ x.id # tasks[i].id => y = x
                        /\ x.id = tasks[i].id => SameButEnrichment(x, y)
              /\ \A r \in Requests : session'[r].rows = session[r].rows]_vars

\* a task has run without error while records of both tenants were
\* committed, and they are as they were written
W_C29 ==
    /\ \E i \in DOMAIN tasks : tasks[i].done /\ tasks[i].outcome = "ok"
    /\ \E x \in committed, y \in committed :
          /\ x.user_id = 1 /\ y.user_id = 2
          /\ ~x.ai_processed /\ ~y.ai_processed
          /\ x.predicted_priority = None /\ y.predicted_priority = None
          /\ \E i \in DOMAIN tasks : tasks[i].done /\ tasks[i].id > x.id /\ tasks[i].id < y.id

\* how many elements of sequence q satisfy Test
CountIn(q, Test(_)) == Cardinality({ k \in DOMAIN q : Test(q[k]) })

IsCounted(o) == o.status \in { "processed", "duplicate" }

IsMessageError(e) == e.kind = "message"

IsValueError(e) == e.kind \in { "missing_phone_number_id", "no_tenant" }

\* the messages of the values of the payload that were routed to a tenant
RoutedMessages(p) ==
    LET routed == { i \in DOMAIN Values(p) :
                      /\ Values(p)[i].field = "messages" /\ Values(p)[i].value
                      /\ Values(p)[i].phone = "p1" }
    IN  IF routed = {} THEN 0
        ELSE Len(Values(p)[CHOOSE i \in routed : TRUE].messages)

\* C30: the result of an ingest call that walked its payload counts as
\* processed the outcomes 'processed' and 'duplicate', counts as errors the
\* per-value and per-message errors together, lists the first 10 errors at
\* most, says success exactly when there is no error, and every message of
\* the routed value is counted once, as processed or as an error.
Thm_C30 ==
    \A r \in Requests :
        ( pc[r] \in { "returned", "closed" } /\ result[r].kind = "aggregate" ) =>
            /\ result[r].processed_count = CountIn(processed_messages[r], IsCounted)
            /\ result[r].processed_count = Len(processed_messages[r])
            /\ result[r].error_count
                  = CountIn(errors[r], IsValueError) + CountIn(errors[r], IsMessageError)
            /\ Len(result[r].errors) <= 10
            /\ Len(result[r].errors) = IF result[r].error_count < 10
                                         THEN result[r].error_count ELSE 10
            /\ \A k \in DOMAIN result[r].errors : result[r].errors[k] = errors[r][k]
            /\ result[r].success <=> result[r].error_count = 0
            /\ result[r].processed_count + CountIn(errors[r], IsMessageError)
                  = RoutedMessages(payload[r])

\* a call with eleven errors - one value without phone, ten messages that
\* failed - reports error_count 11 and lists ten
W_C30 ==
    /\ pc["r1"] = "returned"
    /\ result["r1"].kind = "aggregate"
    /\ result["r1"].error_count = 11
    /\ Len(result["r1"].errors) = 10
    /\ ~result["r1"].success
    /\ result["r1"].processed_count = 0
====
